---- MODULE Spec2Model ----
(***************************************************************************)
(* A model of stock_logger.py: the numeric helpers, the trend note, the   *)
(* construction of one snapshot row, the ledger merge append_unique_csv,  *)
(* the mirror append_to_google_sheet and the orchestration in main.       *)
(*                                                                         *)
(* Numbers.  A Python float is modelled as an exact number: prices are    *)
(* integers counting hundredths (10200 is 102.00), volumes are integers,  *)
(* a percentage is an exact fraction n/d with d > 0.  The input sets keep *)
(* away from the values where binary rounding and exact arithmetic part.  *)
(* A value that may be missing is a record tagged "num", "nan" or "none". *)
(*                                                                         *)
(* Text.  A cell of the ledger file is a string, except the Date cell,    *)
(* which is the record [sep, dd, mm, yyyy] of the parts of its text so    *)
(* that parsing it is something the model computes.                       *)
(***************************************************************************)
EXTENDS Integers, Sequences, FiniteSets, TLC

VARIABLES
    exists,      \* os.path.exists(out_csv)
    ledger,      \* the rows of the ledger file, in file order (text cells)
    sheet,       \* the rows of the mirror worksheet, in order
    pc,          \* where main is: "idle", "loop", "merge", "mirror", "done", "failed"
    env,         \* the inputs of the run: watchlist, upstream data, mirror settings
    idx,         \* the number of watchlist entries already iterated
    rows,        \* main's list `rows`
    log,         \* what the run printed, in order
    io,          \* what the run touched: [read, written, mirrored]
    before       \* the ledger file and the worksheet as the run found them

vars == <<exists, ledger, sheet, pc, env, idx, rows, log, io, before>>

----------------------------------------------------------------------------
(* Python values *)

None == [k |-> "none", v |-> 0]
NaN == [k |-> "nan", v |-> 0]
Float(x) == [k |-> "num", v |-> x]

\* pd.isna on a scalar: None and float("nan")
isna(x) == x.k \in {"none", "nan"}

\* truth value of a float or None: None and 0 are falsy, nan is truthy
Truthy(x) == x.k = "nan" \/ (x.k = "num" /\ x.v # 0)

\* a float that is the exact fraction n/d, d > 0, or nan
Rat(n, d) == [k |-> "num", n |-> n, d |-> d]
RatNaN == [k |-> "nan", n |-> 0, d |-> 1]

Abs(n) == IF n < 0 THEN -n ELSE n

\* n/d as a fraction with a positive denominator (d # 0)
Frac(n, d) == IF d < 0 THEN Rat(-n, -d) ELSE Rat(n, d)

\* comparisons of a float with an integer: every comparison with nan is False
RatGt(x, c) == x.k = "num" /\ x.n > c * x.d
RatLt(x, c) == x.k = "num" /\ x.n < c * x.d
RatGe(x, c) == x.k = "num" /\ x.n >= c * x.d
RatLe(x, c) == x.k = "num" /\ x.n <= c * x.d

----------------------------------------------------------------------------
(* Formatting *)

\* "%02d"
Pad2(n) == IF n < 10 THEN "0" \o ToString(n) ELSE ToString(n)

\* the nearest integer to n/d for n >= 0, d > 0, a tie going to the even one
RoundHalfEven(n, d) ==
    LET q == n \div d
        r == n % d
    IN  IF 2 * r > d \/ (2 * r = d /\ q % 2 = 1) THEN q + 1 ELSE q

\* f"{x:.2f}" of x = n/d, d > 0
Fmt2f(n, d) ==
    LET h == RoundHalfEven(100 * Abs(n), d)
    IN  (IF n < 0 THEN "-" ELSE "") \o ToString(h \div 100) \o "." \o Pad2(h % 100)

\* str(x) of a float x with at most two decimals, given in hundredths
StrFloat(c) ==
    LET w == Abs(c) \div 100
        f == Abs(c) % 100
    IN  (IF c < 0 THEN "-" ELSE "") \o ToString(w) \o "."
            \o (IF f % 10 = 0 THEN ToString(f \div 10) ELSE Pad2(f))

Billion == 1000000000
Million == 1000000
Thousand == 1000

fmt_volume(n) ==
    IF isna(n) THEN ""
    ELSE IF n.v >= Billion THEN Fmt2f(n.v, Billion) \o "b"
    ELSE IF n.v >= Million THEN Fmt2f(n.v, Million) \o "m"
    ELSE IF n.v >= Thousand THEN Fmt2f(n.v, Thousand) \o "k"
    ELSE ToString(n.v)

----------------------------------------------------------------------------
(* Percent change, trend label, trend note *)

pct_change(close, prev_close) ==
    IF prev_close.k = "none" \/ (prev_close.k = "num" /\ prev_close.v = 0)
            \/ isna(prev_close) \/ isna(close)
    THEN RatNaN
    ELSE Frac((close.v - prev_close.v) * 100, prev_close.v)

\* trend_label with a zero change given no label
trend_label_zero_flat(pct) ==
    IF pct.k = "nan" THEN ""
    ELSE IF RatGt(pct, 0) THEN "increase"
    ELSE IF RatLt(pct, 0) THEN "decrease" ELSE ""

trend_label(pct) ==
    IF pct.k = "nan" THEN ""
    ELSE IF RatGt(pct, 0) THEN "increase" ELSE "decrease"

HighRange == 5
ModerateRange == 2
BiasPct == 2

\* vol >= prev_vol * 1.2 and vol <= prev_vol * 0.8, in tenths
VolHigher(vol, prev_vol) == 10 * vol.v >= 12 * prev_vol.v
VolLighter(vol, prev_vol) == 10 * vol.v <= 8 * prev_vol.v

\* lines 53-60
vol_phrase(vol, prev_vol) ==
    IF Truthy(prev_vol) /\ (prev_vol.k = "num" /\ prev_vol.v > 0)
            /\ ~isna(prev_vol) /\ ~isna(vol)
    THEN IF VolHigher(vol, prev_vol) THEN " on higher volume"
         ELSE IF VolLighter(vol, prev_vol) THEN " on lighter volume"
         ELSE " on steady volume"
    ELSE ""

\* the bias with the thresholds exclusive
bias_exclusive(chg) ==
    IF RatGt(chg, BiasPct) THEN "bullish"
    ELSE IF RatLt(chg, -BiasPct) THEN "bearish" ELSE "neutral"

\* line 62
bias_of(chg) ==
    IF RatGe(chg, BiasPct) THEN "bullish"
    ELSE IF RatLe(chg, -BiasPct) THEN "bearish" ELSE "neutral"

build_trend_note(o, h, l, c, prev_c, vol, prev_vol) ==
    IF \E x \in {o, h, l, c, prev_c} : isna(x) THEN ""
    ELSE
        LET day_range == IF Truthy(prev_c)
                         THEN Frac((h.v - l.v) * 100, prev_c.v)
                         ELSE Rat(0, 1)
            chg == pct_change(c, prev_c)
            volatility == IF RatGe(day_range, HighRange) THEN "high"
                          ELSE IF RatGe(day_range, ModerateRange) THEN "moderate"
                          ELSE "low"
            direction == IF RatGt(chg, 0) THEN "rebounded"
                         ELSE IF RatLt(chg, 0) THEN "sold off"
                         ELSE "closed flat"
        IN  direction \o vol_phrase(vol, prev_vol) \o " with " \o volatility
                \o " intraday volatility; short-term bias is " \o bias_of(chg) \o "."

----------------------------------------------------------------------------
(* Calendar dates and the Date text *)

IsLeap(y) == (y % 4 = 0 /\ y % 100 # 0) \/ y % 400 = 0

DaysIn(m, y) ==
    IF m = 2 THEN (IF IsLeap(y) THEN 29 ELSE 28)
    ELSE IF m \in {4, 6, 9, 11} THEN 30 ELSE 31

\* a datetime, as <<year, month, day>>
datetime_min == <<1, 1, 1>>

DateBefore(a, b) ==
    \/ a[1] < b[1]
    \/ a[1] = b[1] /\ a[2] < b[2]
    \/ a[1] = b[1] /\ a[2] = b[2] /\ a[3] < b[3]

PrevDay(t) ==
    IF t[3] > 1 THEN <<t[1], t[2], t[3] - 1>>
    ELSE IF t[2] > 1 THEN <<t[1], t[2] - 1, DaysIn(t[2] - 1, t[1])>>
    ELSE <<t[1] - 1, 12, 31>>

\* the text "dd<sep>mm<sep>yyyy"
DateText(sep, dd, mm, yyyy) == [sep |-> sep, dd |-> dd, mm |-> mm, yyyy |-> yyyy]

\* trade_date.strftime("%d/%m/%Y")
strftime(t) == DateText("/", t[3], t[2], t[1])

\* datetime.strptime(d, "%d/%m/%Y") raises nothing
Parsable(text) ==
    /\ text.sep = "/"
    /\ text.yyyy \in 1..9999
    /\ text.mm \in 1..12
    /\ text.dd \in 1..DaysIn(text.mm, text.yyyy)

----------------------------------------------------------------------------
(* Cells of a DataFrame and of the CSV file *)

S(s) == [k |-> "str", s |-> s, v |-> 0]
F(c) == [k |-> "float", s |-> "", v |-> c]
NaNCell == [k |-> "nan", s |-> "", v |-> 0]

Columns ==
    {"Date", "Ticker", "CompanyName", "Open", "High", "Low", "Close",
     "PreviousClose", "Volume", "PctChangeDay", "TrendNote", "trend"}

\* the texts pandas.read_csv reads as a missing value
NaTexts ==
    {"", "#N/A", "#N/A N/A", "#NA", "-1.#IND", "-1.#QNAN", "-NaN", "-nan",
     "1.#IND", "1.#QNAN", "<NA>", "N/A", "NA", "NULL", "NaN", "None", "n/a",
     "nan", "null"}

\* DataFrame.astype(str), one cell
astype_str(cell) ==
    IF cell.k = "float" THEN S(StrFloat(cell.v))
    ELSE IF cell.k = "nan" THEN S("nan")
    ELSE cell

\* pd.read_csv(path, dtype=str), one cell other than Date
read_cell(text) == IF text \in NaTexts THEN NaNCell ELSE S(text)

\* DataFrame.to_csv, one cell
to_csv_cell(cell) ==
    IF cell.k = "nan" THEN ""
    ELSE IF cell.k = "float" THEN StrFloat(cell.v)
    ELSE cell.s

\* a Date text is one of the structured texts, none of which is in NaTexts
read_row(r) == [f \in DOMAIN r |-> IF f = "Date" THEN S(r[f]) ELSE read_cell(r[f])]
astype_str_row(r) == [f \in DOMAIN r |-> astype_str(r[f])]
to_csv_row(r) == [f \in DOMAIN r |-> to_csv_cell(r[f])]

\* the frame read from the file, the batch as text, the frame as written
read_csv(file) == [i \in 1..Len(file) |-> read_row(file[i])]
astype_str_frame(df) == [i \in 1..Len(df) |-> astype_str_row(df[i])]
to_csv(df) == [i \in 1..Len(df) |-> to_csv_row(df[i])]

----------------------------------------------------------------------------
(* append_unique_csv *)

SameKey(a, b) == a.Date = b.Date /\ a.Ticker = b.Ticker

\* drop_duplicates with keep="first"
drop_duplicates_keep_first(df) ==
    LET keep == {i \in 1..Len(df) : \A j \in 1..(i - 1) : ~SameKey(df[i], df[j])}
        RECURSIVE pick(_)
        pick(i) == IF i > Len(df) THEN <<>>
                   ELSE (IF i \in keep THEN <<df[i]>> ELSE <<>>) \o pick(i + 1)
    IN  pick(1)

\* combined.drop_duplicates(subset=["Date", "Ticker"], keep="last")
drop_duplicates(df) ==
    LET keep == {i \in 1..Len(df) : \A j \in (i + 1)..Len(df) : ~SameKey(df[i], df[j])}
        RECURSIVE pick(_)
        pick(i) == IF i > Len(df) THEN <<>>
                   ELSE (IF i \in keep THEN <<df[i]>> ELSE <<>>) \o pick(i + 1)
    IN  pick(1)

\* the Date text ordered as text, day first
parse_date_as_text(d) ==
    IF d.k = "str" THEN <<d.s.dd, d.s.mm, d.s.yyyy>> ELSE datetime_min

\* lines 104-108
parse_date(d) ==
    IF d.k = "str" /\ Parsable(d.s) THEN <<d.s.yyyy, d.s.mm, d.s.dd>> ELSE datetime_min

\* the tickers of the model, in the order Python compares strings
TickerOrder == <<"AAA", "BBB", "CCC">>
TickerRank(cell) ==
    IF cell.k = "str"
    THEN CHOOSE i \in 1..Len(TickerOrder) : TickerOrder[i] = cell.s
    ELSE Len(TickerOrder) + 1

\* the order of sort_values(["__date", "Ticker"]); a missing Ticker goes last
RowBefore(a, b) ==
    \/ DateBefore(parse_date(a.Date), parse_date(b.Date))
    \/ /\ parse_date(a.Date) = parse_date(b.Date)
       /\ TickerRank(a.Ticker) < TickerRank(b.Ticker)

\* r put into the sorted df after every row that does not come after it
InsertRow(df, r) ==
    LET n == Cardinality({i \in 1..Len(df) : ~RowBefore(r, df[i])})
    IN  SubSeq(df, 1, n) \o <<r>> \o SubSeq(df, n + 1, Len(df))

RECURSIVE SortFrom(_, _, _)
SortFrom(df, i, acc) ==
    IF i > Len(df) THEN acc ELSE SortFrom(df, i + 1, InsertRow(acc, df[i]))

\* combined.sort_values(["__date", "Ticker"]): a stable sort
sort_values(df) == SortFrom(df, 1, <<>>)

\* lines 96-101
combine(ex, file, new_rows) ==
    IF ex
    THEN drop_duplicates(read_csv(file) \o astype_str_frame(new_rows))
    ELSE astype_str_frame(new_rows)

\* the rows append_unique_csv writes to the file
append_unique_csv(ex, file, new_rows) ==
    to_csv(sort_values(combine(ex, file, new_rows)))

----------------------------------------------------------------------------
(* get_latest_daily_bar and the row main builds *)

\* one row of the DataFrame yf.download returns: the index entry and the columns
Bar(day, utcoff, o, h, l, c, v) ==
    [day |-> day, tz |-> utcoff, Open |-> o, High |-> h, Low |-> l, Close |-> c,
     Volume |-> v]

\* the index of the frame carries no timezone
Naive == [aware |-> FALSE, off |-> 0]
Aware(off) == [aware |-> TRUE, off |-> off]

tail(s, n) == IF Len(s) <= n THEN s ELSE SubSeq(s, Len(s) - n + 1, Len(s))

\* lines 71-83, given the frame yf.download returned
get_latest_daily_bar(df) ==
    tail(SelectSeq(df, LAMBDA b : ~isna(b.Close)), 2)

\* UTC offset of Asia/Singapore, in hours
SgUtcOffset == 8

\* line 186: midnight of the session, seen from Singapore when the index has a timezone
trade_date(bar) ==
    IF bar.tz.aware /\ bar.tz.off > SgUtcOffset THEN PrevDay(bar.day) ELSE bar.day

\* round(x, 2) leaves a value given in hundredths as it is
price_cell(x) == IF ~isna(x) THEN F(x.v) ELSE S("")

\* lines 198-219
SnapshotRow(date_str, ticker, name, o, h, l, c, v, prev_close, prev_vol) ==
    LET pchg == pct_change(c, prev_close)
        trend == trend_label(pchg)
        note == build_trend_note(o, h, l, c, prev_close, v, prev_vol)
    IN  [Date |-> S(date_str),
         Ticker |-> S(ticker),
         CompanyName |-> S(name),
         Open |-> price_cell(o),
         High |-> price_cell(h),
         Low |-> price_cell(l),
         Close |-> price_cell(c),
         PreviousClose |-> price_cell(prev_close),
         Volume |-> S(fmt_volume(v)),
         PctChangeDay |-> S(IF pchg.k # "nan" THEN Fmt2f(pchg.n, pchg.d) \o "%" ELSE ""),
         TrendNote |-> S(note),
         trend |-> S(trend)]

\* lines 182-219: bars is not empty; hint is the watchlist's CompanyName, resolved
\* is what try_get_company_name returns (or "" when it fails)
MakeRow(ticker, hint, resolved, bars) ==
    LET latest == bars[Len(bars)]
        has_prev == Len(bars) >= 2
        name == IF hint # "" THEN hint ELSE IF resolved # "" THEN resolved ELSE ticker
    IN  SnapshotRow(strftime(trade_date(latest)), ticker, name,
                    latest.Open, latest.High, latest.Low, latest.Close, latest.Volume,
                    IF has_prev THEN bars[Len(bars) - 1].Close ELSE NaN,
                    IF has_prev THEN bars[Len(bars) - 1].Volume ELSE None)

----------------------------------------------------------------------------
(* State shared by the specifications *)

NoIo == [read |-> FALSE, written |-> FALSE, mirrored |-> FALSE]
Found(ex, file, sh) == [exists |-> ex, ledger |-> file, sheet |-> sh]

----------------------------------------------------------------------------
(* SpecSnapshot: lines 198-219 applied to the values of one pair of bars *)

Floats(values) == {NaN} \cup {Float(x) : x \in values}

SnapshotInputs ==
    [o : Floats({10100}),
     h : Floats({10050, 10100, 10300, 10400}),
     l : Floats({9900}),
     c : Floats({9700, 9800, 9900, 10000, 10100, 10200, 10300}),
     v : Floats({800, 900, 1200, 1300}),
     prev_close : {None} \cup Floats({0, 10000, -10000}),
     prev_vol : {None} \cup Floats({0, -1000, 1000})]

SessionDay == <<2026, 1, 5>>

InitSnapshot ==
    /\ exists = FALSE
    /\ ledger = <<>>
    /\ sheet = <<>>
    /\ pc = "idle"
    /\ env \in SnapshotInputs
    /\ idx = 0
    /\ rows = <<>>
    /\ log = <<>>
    /\ io = NoIo
    /\ before = Found(FALSE, <<>>, <<>>)

ComputeSnapshot ==
    /\ pc = "idle"
    /\ rows' = <<SnapshotRow(strftime(SessionDay), "AAA", "AAA", env.o, env.h, env.l,
                             env.c, env.v, env.prev_close, env.prev_vol)>>
    /\ pc' = "done"
    /\ UNCHANGED <<exists, ledger, sheet, env, idx, log, io, before>>

NextSnapshot == ComputeSnapshot

SpecSnapshot == InitSnapshot /\ [][NextSnapshot]_vars

Missing(x) == x.k # "num"

\* (c - p) / p * 100 compared with k, for numbers c and p # 0
PctAbove(c, p, k) == IF p > 0 THEN 100 * (c - p) > k * p ELSE 100 * (c - p) < k * p
PctBelow(c, p, k) == IF p > 0 THEN 100 * (c - p) < k * p ELSE 100 * (c - p) > k * p

ExpectedNote(i) ==
    IF Missing(i.o) \/ Missing(i.h) \/ Missing(i.l) \/ Missing(i.c) \/ Missing(i.prev_close)
    THEN ""
    ELSE
        LET p == i.prev_close.v
            c == i.c.v
            defined == p # 0
            direction == IF defined /\ PctAbove(c, p, 0) THEN "rebounded"
                         ELSE IF defined /\ PctBelow(c, p, 0) THEN "sold off"
                         ELSE "closed flat"
            range_at_least(k) == defined /\ ~PctBelow(p + i.h.v - i.l.v, p, k)
            volatility == IF range_at_least(5) THEN "high"
                          ELSE IF range_at_least(2) THEN "moderate" ELSE "low"
            bias == IF defined /\ ~PctBelow(c, p, 2) THEN "bullish"
                    ELSE IF defined /\ ~PctAbove(c, p, -2) THEN "bearish"
                    ELSE "neutral"
            compared == i.prev_vol.k = "num" /\ i.prev_vol.v > 0 /\ i.v.k = "num"
            volumePhrase == IF ~compared THEN ""
                            ELSE IF 5 * i.v.v >= 6 * i.prev_vol.v THEN " on higher volume"
                            ELSE IF 5 * i.v.v <= 4 * i.prev_vol.v THEN " on lighter volume"
                            ELSE " on steady volume"
        IN  direction \o volumePhrase \o " with " \o volatility
                \o " intraday volatility; short-term bias is " \o bias \o "."

Scenario1 ==
    [o |-> Float(10100), h |-> Float(10300), l |-> Float(9900), c |-> Float(10200),
     v |-> Float(1300), prev_close |-> Float(10000), prev_vol |-> Float(1000)]

Scenario1Note ==
    "rebounded on higher volume with moderate intraday volatility; short-term bias is bullish."

\* C8: the trend note of a computed snapshot is empty when any of open, high, low,
\* close, previous close is missing, and otherwise is direction, volume phrase (omitted
\* when the volumes cannot be compared), volatility and bias composed by the rule, with
\* the thresholds inclusive; scenario 1 gives the bullish note.
TrendNoteRule ==
    pc = "done" =>
        /\ rows[1].TrendNote = S(ExpectedNote(env))
        /\ env = Scenario1 => rows[1].TrendNote.s = Scenario1Note

TrendNoteWitness ==
    /\ pc = "done"
    /\ env = Scenario1
    /\ rows[1].TrendNote.s = Scenario1Note

PctUndefined(i) ==
    \/ i.prev_close.k \in {"none", "nan"}
    \/ i.prev_close.k = "num" /\ i.prev_close.v = 0
    \/ i.c.k = "nan"

\* C9: the percent change of a snapshot is undefined exactly when previous close is
\* absent, zero or NaN or close is NaN, and then percentChangeDay and trendLabel are
\* empty; otherwise the label is "increase" for a change > 0 and "decrease" for a
\* change <= 0, zero included.
TrendLabelRule ==
    pc = "done" =>
        IF PctUndefined(env)
        THEN rows[1].PctChangeDay.s = "" /\ rows[1].trend.s = ""
        ELSE /\ rows[1].PctChangeDay.s # ""
             /\ rows[1].trend.s =
                    IF PctAbove(env.c.v, env.prev_close.v, 0) THEN "increase" ELSE "decrease"

TrendLabelWitness ==
    /\ pc = "done"
    /\ env.c = Float(10000)
    /\ env.prev_close = Float(10000)
    /\ rows[1].PctChangeDay.s = "0.00%"
    /\ rows[1].trend.s = "decrease"

----------------------------------------------------------------------------
(* SpecMerge: append_unique_csv called again and again on one ledger file *)

MaxBatch == 2

\* Date texts: two sessions whose texts order the other way round than their days,
\* and a text that names no day of the calendar
Dec20 == DateText("/", 20, 12, 2025)
Jan05 == DateText("/", 5, 1, 2026)
Feb31 == DateText("/", 31, 2, 2026)

MergeKeys == {<<Jan05, "AAA">>, <<Jan05, "BBB">>, <<Dec20, "BBB">>, <<Feb31, "AAA">>}
\* the display names name resolution gives a ticker
MergeNames(t) == IF t = "AAA" THEN {"Acme", "NA"} ELSE {"Beta"}

\* rows as main builds them, from the bars of scenario 1 without a previous session
MergeRecords ==
    UNION {{SnapshotRow(key[1], key[2], n, Scenario1.o, Scenario1.h, Scenario1.l,
                        Scenario1.c, Scenario1.v, NaN, None) : n \in MergeNames(key[2])} :
           key \in MergeKeys}

Batches == UNION {[1..n -> MergeRecords] : n \in 1..MaxBatch}

InitMerge ==
    /\ exists = FALSE
    /\ ledger = <<>>
    /\ sheet = <<>>
    /\ pc = "idle"
    /\ env = <<>>
    /\ idx = 0
    /\ rows = <<>>
    /\ log = <<>>
    /\ io = NoIo
    /\ before = Found(FALSE, <<>>, <<>>)

\* a run's call append_unique_csv(out_csv, df_new)
Merge ==
    /\ pc = "idle"
    /\ \E batch \in Batches :
        /\ rows' = batch
        /\ ledger' = append_unique_csv(exists, ledger, batch)
    /\ exists' = TRUE
    /\ before' = Found(exists, ledger, sheet)
    /\ pc' = "merged"
    /\ UNCHANGED <<sheet, env, idx, log, io>>

\* the next run makes the same call: the upstream data has not changed
Remerge ==
    /\ pc = "merged"
    /\ ledger' = append_unique_csv(exists, ledger, rows)
    /\ before' = Found(exists, ledger, sheet)
    /\ pc' = "remerged"
    /\ UNCHANGED <<exists, sheet, env, idx, rows, log, io>>

\* the process ends; the next run builds its batch afresh
Return ==
    /\ pc \in {"merged", "remerged"}
    /\ pc' = "idle"
    /\ rows' = <<>>
    /\ before' = Found(FALSE, <<>>, <<>>)
    /\ UNCHANGED <<exists, ledger, sheet, env, idx, log, io>>

NextMerge == Merge \/ Remerge \/ Return

SpecMerge == InitMerge /\ [][NextMerge]_vars

\* the (Date, Ticker) key of a row of the file, and of a row of a batch
FileKey(r) == <<r.Date, r.Ticker>>
BatchKey(r) == <<r.Date.s, r.Ticker.s>>
FileKeys(file) == {FileKey(file[i]) : i \in DOMAIN file}
BatchKeys(batch) == {BatchKey(batch[i]) : i \in DOMAIN batch}

\* the text of a batch row in the file
Written(r) == to_csv_row(astype_str_row(r))

JustMerged == pc \in {"merged", "remerged"}

\* C1: after any call of the merge, also the first one on an absent ledger and also
\* with a batch holding one key twice, no two rows of the ledger file share (Date, Ticker).
Uniqueness ==
    exists => \A i, j \in DOMAIN ledger : i # j => FileKey(ledger[i]) # FileKey(ledger[j])

\* C2: merging the same batch a second time leaves the ledger file as the first merge
\* wrote it, same rows in the same order.
Idempotence == pc = "remerged" => ledger = before.ledger

\* C3: a key with a row in the ledger found and a row in the batch has exactly one row
\* in the merged ledger, the batch's last row for that key.
LastWriteWins ==
    (JustMerged /\ before.exists) =>
        \A key \in FileKeys(before.ledger) \cap BatchKeys(rows) :
            LET last == CHOOSE i \in DOMAIN rows :
                            /\ BatchKey(rows[i]) = key
                            /\ \A j \in DOMAIN rows : BatchKey(rows[j]) = key => j <= i
                hits == {i \in DOMAIN ledger : FileKey(ledger[i]) = key}
            IN  /\ Cardinality(hits) = 1
                /\ \A i \in hits : ledger[i] = Written(rows[last])

LastWriteWinsWitness ==
    /\ pc = "merged"
    /\ before.exists
    /\ Len(rows) = 2
    /\ BatchKey(rows[1]) = BatchKey(rows[2])
    /\ rows[1].CompanyName.s = "NA"
    /\ rows[2].CompanyName.s = "Acme"
    /\ \E i \in DOMAIN before.ledger :
        /\ FileKey(before.ledger[i]) = BatchKey(rows[2])
        /\ before.ledger[i].CompanyName = "NA"
    /\ \E i \in DOMAIN ledger : ledger[i] = Written(rows[2])

\* the calendar day a Date text names, counted so that an earlier day is a smaller
\* number; a text that names none counts as earlier than every day
DayNumber(text) ==
    IF text.sep = "/" /\ text.mm \in 1..12 /\ text.dd \in 1..DaysIn(text.mm, text.yyyy)
    THEN (text.yyyy * 12 + text.mm) * 31 + text.dd
    ELSE 0

TickerIndex(t) == CHOOSE i \in 1..Len(TickerOrder) : TickerOrder[i] = t

\* C4: after any merge each row of the ledger file and the next are in order of their
\* dd/mm/yyyy calendar dates, then of their tickers; a Date that cannot be parsed
\* counts as the earliest date.
Ordering ==
    exists =>
        \A i \in 1..(Len(ledger) - 1) :
            \/ DayNumber(ledger[i].Date) < DayNumber(ledger[i + 1].Date)
            \/ /\ DayNumber(ledger[i].Date) = DayNumber(ledger[i + 1].Date)
               /\ TickerIndex(ledger[i].Ticker) <= TickerIndex(ledger[i + 1].Ticker)

OrderingWitness ==
    /\ exists
    /\ Len(ledger) = 4
    /\ ledger[1].Date = Feb31
    /\ ledger[2].Date = Dec20 /\ ledger[2].Ticker = "BBB"
    /\ ledger[3].Date = Jan05 /\ ledger[3].Ticker = "AAA"
    /\ ledger[4].Date = Jan05 /\ ledger[4].Ticker = "BBB"

\* C10: the keys of the merged ledger are those of the ledger found and of the batch,
\* and every row found whose key is not in the batch is in the merged ledger with all
\* its fields as they were.
HistoryKept ==
    JustMerged =>
        /\ FileKeys(ledger) = FileKeys(before.ledger) \cup BatchKeys(rows)
        /\ \A i \in DOMAIN before.ledger :
            FileKey(before.ledger[i]) \notin BatchKeys(rows) =>
                \E j \in DOMAIN ledger : ledger[j] = before.ledger[i]

----------------------------------------------------------------------------
(* SpecRun: one run of main *)

MaxWatch == 2

\* the sessions upstream knows of: scenario 1's two, and one before them
OldBar == Bar(<<2025, 12, 31>>, Naive, Float(9900), Float(10100), Float(9800),
              Float(9900), Float(900))
PrevBar == Bar(<<2026, 1, 2>>, Naive, Float(9900), Float(10100), Float(9800),
               Float(10000), Float(1000))
CurBar == Bar(SessionDay, Naive, Scenario1.o, Scenario1.h, Scenario1.l, Scenario1.c,
              Scenario1.v)
\* a session whose row has no Close yet
OpenBar == Bar(SessionDay, Naive, Float(10100), NaN, NaN, NaN, NaN)
\* the same session with an index in a timezone an hour ahead of Singapore
TokyoBar == Bar(SessionDay, Aware(9), Float(10100), Float(10300), Float(9900),
                Float(10200), NaN)

Raises == [raises |-> TRUE, df |-> <<>>]
Returns(df) == [raises |-> FALSE, df |-> df]

\* what yf.download does for one ticker
Downloads ==
    {Raises, Returns(<<>>), Returns(<<OpenBar>>), Returns(<<TokyoBar>>),
     Returns(<<OldBar, PrevBar, CurBar>>)}

RunTickers == {"AAA", "BBB"}

\* rows of the watchlist after fillna("") and strip()
WatchEntries ==
    {[Ticker |-> "", CompanyName |-> ""],
     [Ticker |-> "AAA", CompanyName |-> ""],
     [Ticker |-> "AAA", CompanyName |-> "Acme Inc"],
     [Ticker |-> "BBB", CompanyName |-> ""]}

Watchlists == UNION {[1..n -> WatchEntries] : n \in 0..MaxWatch}

RunEnvs ==
    [hasTicker : BOOLEAN, watchlist : Watchlists, upstream : [RunTickers -> Downloads]]

\* what try_get_company_name returns; "" also when the lookup raised
ResolvedNames == {"", "Acme Corp"}

\* GOOGLE_SERVICE_ACCOUNT_JSON, SHEET_ID, and how the sink behaves when called
MirrorEnvs ==
    {[sa_json |-> "", sheet_id |-> "sheet", sink |-> "ok"],
     [sa_json |-> "{json}", sheet_id |-> "", sink |-> "ok"],
     [sa_json |-> "{not json", sheet_id |-> "sheet", sink |-> "ok"],
     [sa_json |-> "{json}", sheet_id |-> "sheet", sink |-> "unreachable"],
     [sa_json |-> "{json}", sheet_id |-> "sheet", sink |-> "append fails"],
     [sa_json |-> "{json}", sheet_id |-> "sheet", sink |-> "ok"]}

\* the ledger an earlier run wrote for AAA on the same session, and its mirror
EarlierRow == MakeRow("AAA", "", "", <<PrevBar, CurBar>>)
EarlierLedger == append_unique_csv(FALSE, <<>>, <<EarlierRow>>)

\* the worksheet's header row
HeaderRow == [c \in Columns |-> c]
\* line 154: [str(r[c]) for c in rows.columns]
SheetRow(r) == [f \in DOMAIN r |-> IF r[f].k = "float" THEN StrFloat(r[f].v) ELSE r[f].s]
EarlierSheet == <<HeaderRow, SheetRow(EarlierRow)>>

InitRun ==
    /\ \E found \in {Found(FALSE, <<>>, <<>>), Found(TRUE, EarlierLedger, <<>>),
                     Found(TRUE, EarlierLedger, EarlierSheet)} :
        /\ exists = found.exists
        /\ ledger = found.ledger
        /\ sheet = found.sheet
        /\ before = found
    /\ pc = "idle"
    /\ env \in RunEnvs
    /\ idx = 0
    /\ rows = <<>>
    /\ log = <<>>
    /\ io = NoIo

\* lines 165-167: the watchlist has no Ticker column
MissingTickerColumn ==
    /\ pc = "idle"
    /\ ~env.hasTicker
    /\ pc' = "failed"
    /\ log' = Append(log, "ValueError: watchlist.csv must have a 'Ticker' column")
    /\ UNCHANGED <<exists, ledger, sheet, env, idx, rows, io, before>>

\* lines 165-169
LoadWatchlist ==
    /\ pc = "idle"
    /\ env.hasTicker
    /\ pc' = "loop"
    /\ idx' = 0
    /\ rows' = <<>>
    /\ UNCHANGED <<exists, ledger, sheet, env, log, io, before>>

InLoop == pc = "loop" /\ idx < Len(env.watchlist)
Item == env.watchlist[idx + 1]
Download == env.upstream[Item.Ticker]

\* lines 171-173
SkipBlank ==
    /\ InLoop
    /\ Item.Ticker = ""
    /\ idx' = idx + 1
    /\ UNCHANGED <<exists, ledger, sheet, pc, env, rows, log, io, before>>

\* line 177: yf.download raises and nothing catches it
RetrievalRaises ==
    /\ InLoop
    /\ Item.Ticker # ""
    /\ Download.raises
    /\ pc' = "failed"
    /\ log' = Append(log, "Traceback: get_latest_daily_bar(" \o Item.Ticker \o ")")
    /\ UNCHANGED <<exists, ledger, sheet, env, idx, rows, io, before>>

\* lines 177-180
NoData ==
    /\ InLoop
    /\ Item.Ticker # ""
    /\ ~Download.raises
    /\ get_latest_daily_bar(Download.df) = <<>>
    /\ log' = Append(log, "[WARN] No data for " \o Item.Ticker)
    /\ idx' = idx + 1
    /\ UNCHANGED <<exists, ledger, sheet, pc, env, rows, io, before>>

\* lines 177-220
AppendRow ==
    /\ InLoop
    /\ Item.Ticker # ""
    /\ ~Download.raises
    /\ get_latest_daily_bar(Download.df) # <<>>
    /\ \E resolved \in ResolvedNames :
        rows' = Append(rows, MakeRow(Item.Ticker, Item.CompanyName, resolved,
                                     get_latest_daily_bar(Download.df)))
    /\ idx' = idx + 1
    /\ UNCHANGED <<exists, ledger, sheet, pc, env, log, io, before>>

LoopDone == pc = "loop" /\ idx = Len(env.watchlist)

\* main without the early return
not_rows_never(batch) == FALSE

\* line 222: not rows
not_rows(batch) == batch = <<>>

\* lines 222-224
ExitEmpty ==
    /\ LoopDone
    /\ not_rows(rows)
    /\ log' = Append(log, "No rows generated. Exiting.")
    /\ pc' = "done"
    /\ UNCHANGED <<exists, ledger, sheet, env, idx, rows, io, before>>

\* lines 226-230
WriteLedger ==
    /\ LoopDone
    /\ ~not_rows(rows)
    /\ ledger' = append_unique_csv(exists, ledger, rows)
    /\ exists' = TRUE
    /\ io' = [io EXCEPT !.read = exists, !.written = TRUE]
    /\ log' = Append(log, "Updated CSV")
    /\ pc' = "mirror"
    /\ UNCHANGED <<sheet, env, idx, rows, before>>

Configured(m) == m.sa_json # "" /\ m.sheet_id # ""
\* json.loads(sa_json) raises nothing
IsJson(text) == text = "{json}"

\* lines 125-131
MirrorNotConfigured ==
    /\ pc = "mirror"
    /\ \E m \in MirrorEnvs : ~Configured(m)
    /\ log' = Append(log, "Google Sheets not configured. Skipping.")
    /\ pc' = "done"
    /\ UNCHANGED <<exists, ledger, sheet, env, idx, rows, io, before>>

\* line 136: json.loads raises and nothing catches it
MirrorBadCredentials ==
    /\ pc = "mirror"
    /\ \E m \in MirrorEnvs : Configured(m) /\ ~IsJson(m.sa_json)
    /\ log' = Append(log, "Traceback: json.loads")
    /\ pc' = "failed"
    /\ UNCHANGED <<exists, ledger, sheet, env, idx, rows, io, before>>

\* lines 140-141: the sink cannot be reached, gspread raises and nothing catches it
MirrorUnreachable ==
    /\ pc = "mirror"
    /\ \E m \in MirrorEnvs : Configured(m) /\ IsJson(m.sa_json) /\ m.sink = "unreachable"
    /\ io' = [io EXCEPT !.mirrored = TRUE]
    /\ log' = Append(log, "Traceback: open_by_key")
    /\ pc' = "failed"
    /\ UNCHANGED <<exists, ledger, sheet, env, idx, rows, before>>

\* lines 148-154: an append_row raises after k of the rows went through
MirrorAppendFails ==
    /\ pc = "mirror"
    /\ \E m \in MirrorEnvs : Configured(m) /\ IsJson(m.sa_json) /\ m.sink = "append fails"
    /\ \E k \in 0..(Len(rows) - 1) :
        sheet' = sheet \o (IF sheet = <<>> THEN <<HeaderRow>> ELSE <<>>)
                       \o [i \in 1..k |-> SheetRow(rows[i])]
    /\ io' = [io EXCEPT !.mirrored = TRUE]
    /\ log' = Append(log, "Traceback: append_row")
    /\ pc' = "failed"
    /\ UNCHANGED <<exists, ledger, env, idx, rows, before>>

\* lines 133-154
MirrorAppend ==
    /\ pc = "mirror"
    /\ \E m \in MirrorEnvs : Configured(m) /\ IsJson(m.sa_json) /\ m.sink = "ok"
    /\ sheet' = sheet \o (IF sheet = <<>> THEN <<HeaderRow>> ELSE <<>>)
                      \o [i \in 1..Len(rows) |-> SheetRow(rows[i])]
    /\ io' = [io EXCEPT !.mirrored = TRUE]
    /\ pc' = "done"
    /\ UNCHANGED <<exists, ledger, env, idx, rows, log, before>>

NextRun ==
    \/ MissingTickerColumn
    \/ LoadWatchlist
    \/ SkipBlank
    \/ RetrievalRaises
    \/ NoData
    \/ AppendRow
    \/ ExitEmpty
    \/ WriteLedger
    \/ MirrorNotConfigured
    \/ MirrorBadCredentials
    \/ MirrorUnreachable
    \/ MirrorAppendFails
    \/ MirrorAppend

SpecRun == InitRun /\ [][NextRun]_vars

\* C5: in a run with a non-empty batch, a mirror that is not configured or fails at any
\* step leaves the ledger the run persisted as the merge wrote it, and the run still
\* completes: the failure does not become a failure of the run.
MirrorIsolation ==
    io.written =>
        /\ ledger = append_unique_csv(before.exists, before.ledger, rows)
        /\ pc # "failed"

\* retrieval for a ticker succeeded: it returned at least one bar with a Close
Succeeded(t) ==
    /\ ~env.upstream[t].raises
    /\ \E i \in DOMAIN env.upstream[t].df : env.upstream[t].df[i].Close.k = "num"

TickersOf(batch) == [i \in DOMAIN batch |-> batch[i].Ticker.s]
Named(entries) == [i \in DOMAIN entries |-> entries[i].Ticker]

\* C6: whatever the retrievals of the watchlist's tickers do (succeed, return nothing,
\* fail), the run goes through every entry, skips with a warning each ticker whose
\* retrieval is empty or fails, and its batch holds the rows of the tickers whose
\* retrieval succeeded, in watchlist order.
RetrievalFailureRecovered ==
    (env.hasTicker /\ pc \in {"mirror", "done", "failed"}) =>
        /\ idx = Len(env.watchlist)
        /\ TickersOf(rows) =
            Named(SelectSeq(env.watchlist, LAMBDA e : e.Ticker # "" /\ Succeeded(e.Ticker)))
        /\ \A i \in DOMAIN env.watchlist :
            LET t == env.watchlist[i].Ticker
            IN  (t # "" /\ ~Succeeded(t)) =>
                    \E j \in DOMAIN log : log[j] = "[WARN] No data for " \o t

\* no entry of the watchlist yields a row: its ticker is blank or its retrieval
\* returns no bar with a Close
NoEntryYieldsRow ==
    /\ env.hasTicker
    /\ \A i \in DOMAIN env.watchlist :
        LET t == env.watchlist[i].Ticker
        IN  t # "" =>
                /\ ~env.upstream[t].raises
                /\ \A k \in DOMAIN env.upstream[t].df : env.upstream[t].df[k].Close.k = "nan"

\* C7: a run in which no watchlist entry yields a row never fails, never reads or
\* writes the ledger and never calls the mirror: file and worksheet stay as found.
EmptyBatchUntouched ==
    NoEntryYieldsRow =>
        /\ pc # "failed"
        /\ pc # "mirror"
        /\ io = NoIo
        /\ Found(exists, ledger, sheet) = before
        /\ pc = "done" => log[Len(log)] = "No rows generated. Exiting."

EmptyBatchWitness ==
    /\ pc = "done"
    /\ Len(env.watchlist) = 2
    /\ env.watchlist[1].Ticker = ""
    /\ env.watchlist[2].Ticker = "AAA"
    /\ env.upstream["AAA"] = Returns(<<OpenBar>>)
    /\ rows = <<>>
    /\ before.exists
    /\ Found(exists, ledger, sheet) = before

====
